---- MODULE Spec2Model ----
(***************************************************************************)
(* Robin Hood hash map (package rhmap): the table of the latest revision   *)
(* of the map (New, Set, Get, GetWithIndex, Delete, rehashTable,           *)
(* insertKeyValuePair and the running PSL statistics).                     *)
(*                                                                         *)
(* Keys and values are small naturals; 0 is the zero value of both types   *)
(* (the key and value of a slot that was never written).                   *)
(***************************************************************************)
EXTENDS Integers, FiniteSets

\* ------------------------------------------------------------------ bounds

\* Keys the caller uses in the Set/Delete specification: 0..MaxKey.
MaxKey == 3
\* Values the caller passes: 0..MaxValue.
MaxValue == 1
\* Capacities the caller requests from New: 0..MaxRequested (0: use the default).
MaxRequested == 2
\* Seed words drawn by New: 0..MaxSeed each.
MaxSeed == 1
\* No Set is started that would grow the table beyond this capacity.
MaxSize == 20
\* No Set is started once maxFreq exceeds the element count by more than this.
MaxFreqDrift == 1
\* Keys the caller uses in the Set-only specification: 0..MaxGrowKey.
MaxGrowKey == 9

Keys == 0 .. MaxKey
GrowKeys == 0 .. MaxGrowKey
Values == 0 .. MaxValue
\* The Set-only specification passes one non-zero value, so that an entry the
\* caller wrote differs from a slot that was never written.
GrowValues == {MaxValue}
Seeds == 0 .. MaxSeed

\* --------------------------------------------------------------- constants

defaultSize == 8
\* loadFactor: .9 is a float32: the nearest one to 0.9 is
\* LoadFactorMantissa / 2^24 (0.89999997...).
LoadFactorMantissa == 15099494

\* Go's uint and uint64 arithmetic is modular.  TLC's integers are 32 bits
\* wide, so the model keeps the modular arithmetic with a modulus of 2^30:
\* every count the program maintains stays far below it, and the only values
\* near the modulus are those produced by decrementing 0.
UintMod == 2 ^ 30

UintSub(a, b) == (a - b + UintMod) % UintMod
UintAdd(a, b) == (a + b) % UintMod

\* ------------------------------------------------------------------- state

VARIABLES
    m,        \* the Map struct
    written,  \* observer: key -> <<value>> of the latest Set not followed by a
              \* Delete of the key, << >> when there is none
    last      \* observer: the latest public call ("New", "Set", or for Delete
              \* "DeleteHit" / "DeleteMiss": whether its lookup found the key)

vars == <<m, written, last>>

\* element[K, V]{}: the zero value of a slot.
zeroElement == [key |-> 0, value |-> 0, psl |-> 0, set |-> FALSE]

\* encodeKey: the byte encoding of a key (gob); equal keys encode equally.
encodeKey(key) == <<key>>

\* m.hasher (siphash.Hash): a deterministic function of the two seed words
\* and the encoded key.  The stand-in family: seed k0 sets how many
\* neighbouring keys share a digest, seed k1 shifts every digest.
hasher(k0, k1, p) == (p[1] \div (k0 + 1)) + k1

New(requested, k0, k1) ==
    LET mapSize == IF requested > 0 THEN requested ELSE defaultSize
    IN  [ k0          |-> k0,
          k1          |-> k1,
          numElements |-> 0,
          elements    |-> [i \in 0 .. (mapSize - 1) |-> zeroElement],
          size        |-> mapSize,
          totalPsl    |-> 0,
          maxPsl      |-> 0,
          maxFreq     |-> 0 ]

Len(mp) == mp.numElements

\* hash % m.size
homeIndex(mp, key) == hasher(mp.k0, mp.k1, encodeKey(key)) % mp.size

getIndexOfKeyAtPsl(mp, key, psl) == (homeIndex(mp, key) + psl) % mp.size

\* m.elements[i].key == key: the comparison of an earlier revision, which
\* takes a slot that was never written for an entry of the zero key.
slotHoldsUnchecked(mp, i, key) == mp.elements[i].key = key

\* m.elements[i].set && m.elements[i].key == key
slotHolds(mp, i, key) == mp.elements[i].set /\ mp.elements[i].key = key

found(mp, i) == [value |-> mp.elements[i].value, ok |-> TRUE, index |-> i]
notFound == [value |-> 0, ok |-> FALSE, index |-> 0]

\* The upward scan probes home+upPsl (mod size) for consecutive upPsl; after
\* size consecutive probes every slot has been examined, so a probe beyond
\* start+size can only repeat a slot that did not match.  The loops below run
\* to the smaller of maxPsl and that limit, which returns what the source's
\* loops return and keeps the scan finite when maxPsl has wrapped around.
upLimit(mp, start) ==
    IF mp.maxPsl < start + mp.size THEN mp.maxPsl ELSE start + mp.size

RECURSIVE scanUp(_, _, _, _)
\* for ; upPsl <= m.maxPsl; upPsl++
scanUp(mp, key, upPsl, limit) ==
    IF upPsl <= limit
    THEN LET upIndex == getIndexOfKeyAtPsl(mp, key, upPsl)
         IN  IF slotHolds(mp, upIndex, key)
             THEN found(mp, upIndex)
             ELSE scanUp(mp, key, upPsl + 1, limit)
    ELSE notFound

RECURSIVE scanDownOnly(_, _, _, _, _)
\* The downward loop alone: the lookup without its final upward loop, which
\* gives up once the downward sweep is exhausted.
scanDownOnly(mp, key, downPsl, upPsl, limit) ==
    IF downPsl >= 0
    THEN LET downIndex == getIndexOfKeyAtPsl(mp, key, downPsl)
         IN  IF slotHolds(mp, downIndex, key)
             THEN found(mp, downIndex)
             ELSE scanDownOnly(mp, key, downPsl - 1, upPsl, limit)
    ELSE notFound

RECURSIVE scanDown(_, _, _, _, _)
\* for ; downPsl >= 0; downPsl--, then the upward loop
scanDown(mp, key, downPsl, upPsl, limit) ==
    IF downPsl >= 0
    THEN LET downIndex == getIndexOfKeyAtPsl(mp, key, downPsl)
         IN  IF slotHolds(mp, downIndex, key)
             THEN found(mp, downIndex)
             ELSE scanDown(mp, key, downPsl - 1, upPsl, limit)
    ELSE scanUp(mp, key, upPsl, limit)

RECURSIVE scanBoth(_, _, _, _, _)
\* for ; downPsl >= 0 && upPsl <= m.maxPsl; downPsl, upPsl = downPsl-1, upPsl+1
scanBoth(mp, key, downPsl, upPsl, limit) ==
    IF downPsl >= 0 /\ upPsl <= limit
    THEN LET downIndex == getIndexOfKeyAtPsl(mp, key, downPsl)
             upIndex == getIndexOfKeyAtPsl(mp, key, upPsl)
         IN  IF slotHolds(mp, downIndex, key)
             THEN found(mp, downIndex)
             ELSE IF slotHolds(mp, upIndex, key)
                  THEN found(mp, upIndex)
                  ELSE scanBoth(mp, key, downPsl - 1, upPsl + 1, limit)
    ELSE scanDown(mp, key, downPsl, upPsl, limit)

GetWithIndex(mp, key) ==
    IF mp.numElements = 0
    THEN notFound
    ELSE LET downPsl == mp.totalPsl \div mp.numElements
             upPsl == downPsl + 1
         IN  scanBoth(mp, key, downPsl, upPsl, upLimit(mp, upPsl))

Get(mp, key) ==
    LET r == GetWithIndex(mp, key) IN [value |-> r.value, ok |-> r.ok]

updateMaxStatsOnInsert(mp, newElemPsl) ==
    IF newElemPsl > mp.maxPsl
    THEN [mp EXCEPT !.maxPsl = newElemPsl, !.maxFreq = 1]
    ELSE IF newElemPsl = mp.maxPsl
         THEN [mp EXCEPT !.maxFreq = UintAdd(@, 1)]
         ELSE mp

updateMaxStatsOnDelete(mp) ==
    IF mp.maxFreq = 1
    THEN [mp EXCEPT !.maxPsl = UintSub(@, 1)]
    ELSE [mp EXCEPT !.maxFreq = UintSub(@, 1)]

RECURSIVE probeInsert(_, _, _)
\* for ; m.elements[i].set; i = (i + 1) % m.size, then the final placement
probeInsert(mp, i, newElem) ==
    IF mp.elements[i].set
    THEN IF newElem.psl > mp.elements[i].psl
         THEN LET oldElem == mp.elements[i]
                  placed == [mp EXCEPT !.elements[i] = newElem]
                  counted == updateMaxStatsOnInsert(placed, newElem.psl)
                  summed == [counted EXCEPT
                               !.totalPsl = UintAdd(@, newElem.psl - oldElem.psl)]
              IN  probeInsert(summed, (i + 1) % mp.size,
                              [oldElem EXCEPT !.psl = @ + 1])
         ELSE probeInsert(mp, (i + 1) % mp.size, [newElem EXCEPT !.psl = @ + 1])
    ELSE LET placed == [mp EXCEPT !.elements[i] = newElem,
                                  !.numElements = @ + 1]
             counted == updateMaxStatsOnInsert(placed, newElem.psl)
         IN  [counted EXCEPT !.totalPsl = UintAdd(@, newElem.psl)]

\* The insertion with the new entry's PSL counted from 1 instead of 0.
insertKeyValuePairFromOne(mp, key, value) ==
    probeInsert(mp, homeIndex(mp, key),
                [key |-> key, value |-> value, psl |-> 1, set |-> TRUE])

insertKeyValuePair(mp, key, value) ==
    probeInsert(mp, homeIndex(mp, key),
                [key |-> key, value |-> value, psl |-> 0, set |-> TRUE])

RECURSIVE replay(_, _, _)
\* for _, elem := range oldElems { m.insertKeyValuePair(elem.key, elem.value) }
replay(mp, oldElems, n) ==
    IF n \in DOMAIN oldElems
    THEN replay(insertKeyValuePair(mp, oldElems[n].key, oldElems[n].value),
                oldElems, n + 1)
    ELSE mp

rehashTable(mp) ==
    LET grown == [mp EXCEPT
                    !.size = 2 * mp.size,
                    !.elements = [i \in 0 .. (2 * mp.size - 1) |-> zeroElement],
                    !.numElements = 0,
                    !.totalPsl = 0,
                    !.maxPsl = 0,
                    !.maxFreq = 0]
    IN  replay(grown, mp.elements, 0)

\* load > m.loadFactor: the comparison made strict.
loadReachedStrict(mp) ==
    mp.numElements * 2 ^ 25 > (2 * LoadFactorMantissa + 1) * mp.size

\* load >= m.loadFactor, for load := float32(float64(numElements) / float64(size)).
\* The ratio rounds (to nearest, ties to even) to a float32 that is at least
\* loadFactor exactly when it is at least the midpoint between loadFactor and
\* the float32 below it, (2 * LoadFactorMantissa - 1) / 2^25; the
\* intermediate float64 is exact enough not to move a ratio of two numbers
\* below 2^29 across that midpoint.  The products stay within TLC's integers
\* for the capacities the model reaches (at most 2 * MaxSize).
loadReached(mp) ==
    mp.numElements * 2 ^ 25 >= (2 * LoadFactorMantissa - 1) * mp.size

\* Set without its load check: the table is never resized.
afterNoLoadCheck(mp) == mp

\* The table as Set leaves it after the load check.
afterLoadCheck(mp) == IF loadReached(mp) THEN rehashTable(mp) ELSE mp

\* Map.Set, as a function of the table.
SetOn(mp, key, value) ==
    LET checked == afterLoadCheck(mp)
        r == GetWithIndex(checked, key)
    IN  IF r.ok
        THEN [checked EXCEPT !.elements[r.index].value = value]
        ELSE insertKeyValuePair(checked, key, value)

RECURSIVE shiftBack(_, _, _)
\* for j := (i + 1) % m.size; m.elements[j].set && m.elements[j].psl > 0; ...
shiftBack(mp, i, j) ==
    IF mp.elements[j].set /\ mp.elements[j].psl > 0
    THEN LET adjusted == IF mp.elements[i].psl = mp.maxPsl
                         THEN updateMaxStatsOnDelete(mp)
                         ELSE mp
             moved == [mp.elements[j] EXCEPT !.psl = @ - 1]
             shifted == [adjusted EXCEPT
                           !.totalPsl = UintSub(@, 1),
                           !.elements = [@ EXCEPT ![i] = moved,
                                                  ![j] = zeroElement]]
         IN  shiftBack(shifted, (i + 1) % mp.size, (j + 1) % mp.size)
    ELSE mp

\* Delete without the backward shift: the entry's slot is cleared and the
\* entries that follow stay where they are.
DeleteOnNoShift(mp, key) ==
    IF mp.numElements = 0
    THEN mp
    ELSE LET r == GetWithIndex(mp, key)
             uncounted == [mp EXCEPT
                             !.totalPsl = UintSub(@, mp.elements[r.index].psl),
                             !.numElements = @ - 1]
         IN  IF r.ok
             THEN [uncounted EXCEPT !.elements[r.index] = zeroElement]
             ELSE mp

\* Map.Delete, as a function of the table.
DeleteOn(mp, key) ==
    IF mp.numElements = 0
    THEN mp
    ELSE LET r == GetWithIndex(mp, key)
             i == r.index
             uncounted == [mp EXCEPT
                             !.totalPsl = UintSub(@, mp.elements[i].psl),
                             !.numElements = @ - 1]
             adjusted ==
                 IF uncounted.numElements = 0
                 THEN [uncounted EXCEPT !.maxFreq = 0, !.maxPsl = 0]
                 ELSE IF uncounted.elements[i].psl = uncounted.maxPsl
                      THEN updateMaxStatsOnDelete(uncounted)
                      ELSE uncounted
             cleared == [adjusted EXCEPT !.elements[i] = zeroElement]
         IN  IF r.ok
             THEN shiftBack(cleared, i, (i + 1) % mp.size)
             ELSE mp

\* ----------------------------------------------------------------- actions

\* The bounds of the exploration: no Set that would grow the table beyond
\* MaxSize, none once maxFreq (which counts entries, and so is at most
\* numElements when it is exact) exceeds numElements by more than MaxFreqDrift.
mayStartSet(mp) ==
    /\ loadReached(mp) => 2 * mp.size <= MaxSize
    /\ mp.maxFreq <= mp.numElements + MaxFreqDrift

\* The observers come first: a property that asks whether a step is
\* Set(key, value) settles it on them before it computes the new table.
Set(key, value) ==
    /\ mayStartSet(m)
    /\ last' = "Set"
    /\ written' = [written EXCEPT ![key] = <<value>>]
    /\ m' = SetOn(m, key, value)

Delete(key) ==
    /\ written' = [written EXCEPT ![key] = << >>]
    /\ last' = (IF GetWithIndex(m, key).ok THEN "DeleteHit" ELSE "DeleteMiss")
    /\ m' = DeleteOn(m, key)

\* Set and Delete calls in any order, on a table of a small requested capacity.
Init ==
    /\ \E requested \in 0 .. MaxRequested, k0 \in Seeds, k1 \in Seeds :
           m = New(requested, k0, k1)
    /\ written = [k \in Keys \cup GrowKeys |-> << >>]
    /\ last = "New"

Next ==
    \/ \E key \in Keys, value \in Values : Set(key, value)
    \/ \E key \in Keys : Delete(key)

Spec == Init /\ [][Next]_vars

\* Set calls only, on a table of capacity defaultSize (which is full when the
\* load factor is reached) or 10 (which then has an unset slot), with distinct
\* digests and enough keys to reach the load factor.
InitGrow ==
    /\ \E requested \in {0, 10}, k1 \in Seeds :
           m = New(requested, 0, k1)
    /\ written = [k \in Keys \cup GrowKeys |-> << >>]
    /\ last = "New"

NextGrow == \E key \in GrowKeys, value \in GrowValues : Set(key, value)

SpecGrow == InitGrow /\ [][NextGrow]_vars

\* ------------------------------------------------------------------ claims

\* The keys for which a Set has been called and no Delete since.
writtenKeys == {k \in GrowKeys : written[k] # << >>}

\* No occupied slot of the table holds the key.
keyAbsent(mp, key) ==
    \A i \in DOMAIN mp.elements :
        ~(mp.elements[i].set /\ mp.elements[i].key = key)

occupied(mp) == {i \in DOMAIN mp.elements : mp.elements[i].set}

\* The largest PSL stored in an occupied slot (0 for the empty table).
trueMaxPsl(mp) ==
    IF occupied(mp) = {}
    THEN 0
    ELSE CHOOSE p \in {mp.elements[i].psl : i \in occupied(mp)} :
             \A i \in occupied(mp) : mp.elements[i].psl <= p

\* The number of occupied slots whose PSL is the largest one.
trueMaxFreq(mp) ==
    Cardinality({i \in occupied(mp) : mp.elements[i].psl = trueMaxPsl(mp)})

\* C1: after any sequence of Set calls (resizes included), Get(k) of every key
\* that has been Set returns (v, true) with v the value of the latest Set(k, .).
C1_GetReturnsLatestSet ==
    \A k \in writtenKeys : Get(m, k) = [value |-> written[k][1], ok |-> TRUE]

\* C2: after any sequence of Set calls, Len() is the number of distinct keys
\* that have been Set.
C2_LenCountsDistinctKeys == Len(m) = Cardinality(writtenKeys)

\* C3: in every reachable state, Set(k, v) followed at once by Get(k) returns
\* (v, true).
C3_SetThenGet ==
    [][\A key \in Keys, value \in Values :
          Set(key, value) => Get(m', key) = [value |-> value, ok |-> TRUE]]_vars

\* C4: Delete(k) of a present key k leaves every other present key
\* retrievable, with the value it had.
C4_DeleteKeepsOthers ==
    [][\A key \in Keys :
          (Delete(key) /\ Get(m, key).ok) =>
              \A other \in Keys \ {key} :
                  Get(m, other).ok => Get(m', other) = Get(m, other)]_vars

\* C5: when a Set triggers a resize, every key/value pair retrievable before
\* the resize is retrievable right after it, and the element count after the
\* re-insertion equals the count before the resize.
C5_ResizePreservesContents ==
    [][\A key \in GrowKeys, value \in GrowValues :
          (Set(key, value) /\ loadReached(m)) =>
              LET resized == rehashTable(m)
              IN  /\ \A k \in GrowKeys :
                         Get(m, k).ok => Get(resized, k) = Get(m, k)
                  /\ Len(resized) = Len(m)]_vars

\* C6: after Delete(k), Get(k) reports found = false, and a second Delete(k)
\* leaves the whole table as the first one left it.
C6_DeleteIdempotent ==
    [][\A key \in Keys :
          Delete(key) => (~Get(m', key).ok /\ DeleteOn(m', key) = m')]_vars

\* C7: Get(k) reports found = true only for a key that was Set and not
\* deleted since, the zero key included.
C7_GetSound == \A k \in GrowKeys : Get(m, k).ok => k \in writtenKeys

\* C8: Delete(k) on an empty table, or of a key that no slot holds, changes
\* nothing in the table (slots, Len, capacity, totalPsl, maxPsl, maxFreq).
C8_DeleteAbsentIsNoop ==
    [][\A key \in Keys :
          (Delete(key) /\ (m.numElements = 0 \/ keyAbsent(m, key))) => m' = m]_vars

\* C8 happens: the latest call was a Delete whose key no lookup could have
\* missed (maxPsl covers every stored PSL), on a table that holds entries with
\* a non-zero PSL.
C8_Witness ==
    /\ last = "DeleteMiss"
    /\ m.numElements > 1
    /\ trueMaxPsl(m) > 0
    /\ m.maxPsl >= trueMaxPsl(m)
    /\ \E k \in Keys : written[k] = << >> /\ keyAbsent(m, k)

C10_MaxStatsExact ==
    m.maxPsl = trueMaxPsl(m) /\ m.maxFreq = trueMaxFreq(m)

\* C11: after every Set and Delete (a Set that resizes included), no two
\* occupied slots hold the same key.
C11_Uniqueness ==
    \A i \in occupied(m), j \in occupied(m) :
        m.elements[i].key = m.elements[j].key => i = j

\* C12: in every reachable state maxPsl is at least the PSL stored in every
\* occupied slot, so the window [0, maxPsl] of GetWithIndex covers every entry.
C12_MaxPslCovers ==
    \A i \in occupied(m) : m.elements[i].psl <= m.maxPsl

\* C13: a Set of a key that the lookup finds overwrites the value in the
\* entry's slot and changes nothing else (capacity, positions, Len and the
\* statistics stay as they were), whatever the load.
C13_SetPresentInPlace ==
    [][\A key \in GrowKeys, value \in GrowValues :
          (Set(key, value) /\ GetWithIndex(m, key).ok) =>
              m' = [m EXCEPT !.elements[GetWithIndex(m, key).index].value = value]]_vars

\* maxPsl and maxFreq are the true maximum and its frequency.
statsExact(mp) ==
    mp.maxPsl = trueMaxPsl(mp) /\ mp.maxFreq = trueMaxFreq(mp)

\* The slots Delete's backward shift moves when it removes the entry of slot
\* i: the run of occupied slots with PSL > 0 that follows slot i cyclically.
shiftedSlots(mp, i) ==
    {j \in DOMAIN mp.elements :
        /\ j # i
        /\ \A d \in 1 .. ((j - i + mp.size) % mp.size) :
               LET e == mp.elements[(i + d) % mp.size]
               IN  e.set /\ e.psl > 0}

\* C14: when Delete removes an entry, every entry of the run that follows it
\* ends one slot earlier with its PSL reduced by 1, and when one of them had
\* PSL = maxPsl the max statistics are adjusted (from statistics that were
\* exact, a shift of an entry at the maximum does not leave both as they were).
C14_ShiftAdjustsStats ==
    [][\A key \in Keys :
          (Delete(key) /\ GetWithIndex(m, key).ok) =>
              LET i == GetWithIndex(m, key).index
                  moved == shiftedSlots(m, i)
              IN  /\ \A j \in moved :
                         m'.elements[(j + m.size - 1) % m.size] =
                             [m.elements[j] EXCEPT !.psl = @ - 1]
                  /\ ( /\ statsExact(m)
                       /\ \E j \in moved : m.elements[j].psl = m.maxPsl )
                         => <<m'.maxPsl, m'.maxFreq>> # <<m.maxPsl, m.maxFreq>>]_vars

\* C15: when Delete removes an entry whose PSL is maxPsl (and shifts nothing,
\* from statistics that were exact, leaving a non-empty table), maxFreq is
\* decremented if other entries remain at maxPsl; otherwise maxPsl is
\* decremented and maxFreq becomes the number of entries at the new maximum.
C15_RemoveMaxResetsFreq ==
    [][\A key \in Keys :
          ( /\ Delete(key)
            /\ GetWithIndex(m, key).ok
            /\ m.numElements > 1
            /\ statsExact(m)
            /\ m.elements[GetWithIndex(m, key).index].psl = m.maxPsl
            /\ shiftedSlots(m, GetWithIndex(m, key).index) = {} )
          => IF m.maxFreq > 1
             THEN m'.maxPsl = m.maxPsl /\ m'.maxFreq = m.maxFreq - 1
             ELSE /\ m'.maxPsl = m.maxPsl - 1
                  /\ m'.maxFreq =
                         Cardinality({j \in occupied(m') :
                                         m'.elements[j].psl = m'.maxPsl})]_vars

\* The PSLs of the window [0, maxPsl]; beyond size - 1 the probed slots repeat.
window(mp) ==
    0 .. (IF mp.maxPsl < mp.size THEN mp.maxPsl ELSE mp.size - 1)

\* The mean PSL at which GetWithIndex starts its two sweeps.
meanPsl(mp) == mp.totalPsl \div mp.numElements

\* C16: GetWithIndex(k) reports not-found only when no slot home(k)+p, p in
\* [0, maxPsl], holds k, whatever the mean PSL it starts from and whichever
\* sweep is exhausted first; a key stored at a PSL in [0, maxPsl] is found,
\* and the index returned is a slot that holds the key.
C16_LookupCoversWindow ==
    /\ \A key \in GrowKeys :
           LET r == GetWithIndex(m, key)
           IN  IF r.ok
               THEN slotHolds(m, r.index, key) /\ r.value = m.elements[r.index].value
               ELSE \A p \in window(m) :
                        ~slotHolds(m, getIndexOfKeyAtPsl(m, key, p), key)
    /\ \A i \in occupied(m) :
           LET e == m.elements[i]
           IN  (e.psl <= m.maxPsl /\ i = getIndexOfKeyAtPsl(m, e.key, e.psl))
                   => GetWithIndex(m, e.key).ok

\* C16 happens: an entry lies beyond the PSLs the two-sided sweep reaches
\* (above 2 * mean + 1) and within maxPsl, so only the final upward loop can
\* find it, and the lookup returns its slot.
C16_Witness ==
    /\ m.numElements > 0
    /\ \E i \in occupied(m) :
           /\ m.elements[i].psl > 2 * meanPsl(m) + 1
           /\ m.elements[i].psl <= m.maxPsl
           /\ GetWithIndex(m, m.elements[i].key).index = i
           /\ GetWithIndex(m, m.elements[i].key).ok

\* The distance of slot i from the home index of the key it holds.
distanceFromHome(mp, i) ==
    (i - homeIndex(mp, mp.elements[i].key) + mp.size) % mp.size

\* C17: after every public operation, the PSL stored in an occupied slot i is
\* (i - home(k)) mod capacity for the key k it holds, home(k) being
\* hash(k) mod the current capacity.
C17_PslCorrect ==
    \A i \in occupied(m) : m.elements[i].psl = distanceFromHome(m, i)

\* C17 happens: right after a Delete that removed an entry, a table that has
\* been resized (capacity 4 is reached only by doubling) holds a displaced
\* entry in the last slot of the array and another displaced entry.
C17_Witness ==
    /\ last = "DeleteHit"
    /\ m.size = 4
    /\ m.elements[m.size - 1].set
    /\ m.elements[m.size - 1].psl > 0
    /\ \E i \in occupied(m) : i # m.size - 1 /\ m.elements[i].psl > 0

\* C18: after every Set and every Delete, no occupied slot with PSL > 0
\* immediately follows (cyclically) an empty slot.
C18_ClusterContiguity ==
    \A i \in occupied(m) :
        m.elements[i].psl > 0 => m.elements[(i + m.size - 1) % m.size].set

\* C18 happens: a Delete has just removed an entry, and a cluster with a
\* displaced entry starts right after an empty slot: its first entry is at
\* its home index (PSL 0) and the next slot holds an entry with PSL > 0.
C18_Witness ==
    /\ last = "DeleteHit"
    /\ \E i \in occupied(m) :
           /\ ~m.elements[(i + m.size - 1) % m.size].set
           /\ m.elements[i].psl = 0
           /\ m.elements[(i + 1) % m.size].set
           /\ m.elements[(i + 1) % m.size].psl > 0

RECURSIVE probeLength(_, _, _)
\* The number of occupied slots the probing loop of insertKeyValuePair passes
\* from slot i before it reaches an empty one; -1 when it has passed every
\* slot of the table without reaching one (the loop would not end).
probeLength(mp, i, passed) ==
    IF ~mp.elements[i].set
    THEN passed
    ELSE IF passed + 1 >= mp.size
         THEN -1
         ELSE probeLength(mp, (i + 1) % mp.size, passed + 1)

\* The table in the middle of rehashTable's replay, when the first n slots of
\* the old array have been re-inserted.
replayedUpTo(mp, n) ==
    rehashTable([mp EXCEPT !.elements = [i \in 0 .. (n - 1) |-> mp.elements[i]]])

\* The probing loop started for the key in table mp has an empty slot to reach
\* and reaches it.
probeEnds(mp, key) ==
    /\ \E i \in DOMAIN mp.elements : ~mp.elements[i].set
    /\ probeLength(mp, homeIndex(mp, key), 0) \in 0 .. (mp.size - 1)

\* C19: every run of the probing loop of insertKeyValuePair, for the new key
\* of a Set or for a slot replayed by a resize, starts in a table with an
\* empty slot and reaches one, in every state that Set and Delete calls lead
\* to from any initial capacity.
C19_InsertTerminates ==
    /\ loadReached(m) =>
           \A n \in 0 .. (m.size - 1) :
               probeEnds(replayedUpTo(m, n), m.elements[n].key)
    /\ \A key \in GrowKeys :
           LET atInsert == afterLoadCheck(m)
           IN  ~GetWithIndex(atInsert, key).ok => probeEnds(atInsert, key)

\* C19 happens: a Set has just filled the last empty slot of a table of
\* capacity 4 (reached by doubling), and an entry lies two slots past its home
\* index, so a probing loop passed occupied slots.
C19_Witness ==
    /\ last = "Set"
    /\ m.size = 4
    /\ m.numElements = 4
    /\ \E i \in occupied(m) : m.elements[i].psl >= 2

\* A statistic holds a value that only a decrement below 0 produces: the
\* counts the program maintains stay below 2 * MaxSize, far from the modulus.
wrapped(x) == x >= UintMod \div 2

\* C20: in any sequence of Set and Delete calls no unsigned statistic wraps
\* around: maxPsl and maxFreq are never decremented from 0 and totalPsl is
\* never decremented below 0.
C20_StatsNeverWrap ==
    ~wrapped(m.maxPsl) /\ ~wrapped(m.maxFreq) /\ ~wrapped(m.totalPsl)

====
